---- MODULE Spec2Model ----
(***************************************************************************)
(* State-machine model of wayland-client's event_queue.rs: the EventQueue  *)
(* / QueueHandle pair, the QueueProxyData object data with its synchronous *)
(* child creation, and the dispatch loop.                                  *)
(***************************************************************************)
EXTENDS Integers, Sequences, FiniteSets, TLC

\* ------------------------------------------------------------------ bounds
MaxObj == 2
MaxEvents == 2

Queues == {1, 2}
Ids == 1..MaxObj
OtherQueue(q) == CHOOSE p \in Queues : p # q

\* ------------------------------------------------- interfaces and bindings
\* Two interfaces: "A" has a plain event (opcode 0) and an object-creating
\* event (opcode 1, child interface "B"); "B" has one plain event (opcode 0).
Interfaces == {"A", "B"}
UserDatas == {"u1", "u2"}
Opcodes == {0, 1, 2}
ArgKinds == {"none", "null", "id"}

\* Interface::events: opcode -> does the event descriptor carry a child_interface
EventsOf(I) ==
    IF I = "A" THEN [o \in {0, 1} |-> (o = 1)] ELSE [o \in {0} |-> FALSE]

NoData == [q |-> 0, I |-> "none", U |-> "none", fI |-> "none", fU |-> "none"]

\* QueueHandle::make_data: one call builds the sender (func = queue_callback::<I, U, State>,
\* handle = self.clone()) and the QueueProxyData holding udata: U.
make_data_wrong_udata(qh, I, U) ==
    [q |-> qh, I |-> I, U |-> U, fI |-> I, fU |-> IF U = "u1" THEN "u2" ELSE "u1"]
make_data_other_queue(qh, I, U) ==
    [q |-> OtherQueue(qh), I |-> I, U |-> U, fI |-> I, fU |-> U]
make_data(qh, I, U) ==
    [q |-> qh, I |-> I, U |-> U, fI |-> I, fU |-> U]

\* has_creating_event, computed by make_data from the interface's event list
has_creating_event(I) == \E o \in DOMAIN EventsOf(I) : EventsOf(I)[o]

\* Dispatch::event_created_child for the binding (I, U): the binding ("A", "u1")
\* overrides it with event_created_child!(State, A, [1 => (B, "u1")]); every
\* other binding keeps the default, which panics.  The macro's fallback arm
\* panics too.  Result: [panic |-> BOOLEAN, data |-> adapter].
ChildOf(I, U) ==
    IF I = "A" /\ U = "u1"
    THEN [o \in {1} |-> [I |-> "B", U |-> "u1"]]
    ELSE [o \in {} |-> [I |-> "none", U |-> "none"]]

event_created_child_other_queue(I, U, opcode, qh) ==
    IF opcode \in DOMAIN ChildOf(I, U)
    THEN [panic |-> FALSE,
          data |-> make_data(OtherQueue(qh), ChildOf(I, U)[opcode].I, ChildOf(I, U)[opcode].U)]
    ELSE [panic |-> TRUE, data |-> NoData]
event_created_child_no_panic(I, U, opcode, qh) ==
    IF opcode \in DOMAIN ChildOf(I, U)
    THEN [panic |-> FALSE, data |-> make_data(qh, ChildOf(I, U)[opcode].I, ChildOf(I, U)[opcode].U)]
    ELSE [panic |-> FALSE, data |-> NoData]
event_created_child(I, U, opcode, qh) ==
    IF opcode \in DOMAIN ChildOf(I, U)
    THEN [panic |-> FALSE, data |-> make_data(qh, ChildOf(I, U)[opcode].I, ChildOf(I, U)[opcode].U)]
    ELSE [panic |-> TRUE, data |-> NoData]

\* odata_maker closure built by make_data
odata_maker_null_is_id(od, msg) ==
    IF has_creating_event(od.I)
    THEN CASE msg.arg \in {"null", "id"} -> event_created_child(od.I, od.U, msg.opcode, od.q)
           [] OTHER                      -> [panic |-> FALSE, data |-> NoData]
    ELSE [panic |-> FALSE, data |-> NoData]
odata_maker_none(od, msg) == [panic |-> FALSE, data |-> NoData]
odata_maker(od, msg) ==
    IF has_creating_event(od.I)
    THEN CASE msg.arg = "null" -> [panic |-> FALSE, data |-> NoData]
           [] msg.arg = "id"   -> event_created_child(od.I, od.U, msg.opcode, od.q)
           [] OTHER            -> [panic |-> FALSE, data |-> NoData]
    ELSE [panic |-> FALSE, data |-> NoData]

\* `cb(...)?; dispatched += 1;`: the counter after a callback that ended r
Counted_assign(d, r) == IF r = "ok" THEN 1 ELSE d
Counted(d, r) == IF r = "ok" THEN d + 1 ELSE d

\* I::parse_event: fails with DispatchError::BadMessage on an opcode that is no
\* event of the interface.
parse_event(I, msg) == msg.opcode \in DOMAIN EventsOf(I)

\* queue_callback::<I, U, State>: "err" = parse failure, "panic" = the downcast
\* of the user data failed, "ok" = Dispatch::event was invoked.
queue_callback(entry) ==
    IF ~parse_event(entry.fI, entry.msg) THEN "err"
    ELSE IF entry.odata.U # entry.fU THEN "panic"
    ELSE "ok"

\* UnboundedSender::unbounded_send on a live receiver: push at the tail
unbounded_send_lifo(buf, entry) == <<entry>> \o buf
unbounded_send(buf, entry) == Append(buf, entry)

\* UnboundedReceiver::try_next on a non-empty buffer: the message and the rest
try_next_last(buf) == [item |-> buf[Len(buf)], rest |-> SubSeq(buf, 1, Len(buf) - 1)]
try_next_keep(buf) == [item |-> Head(buf), rest |-> buf]
try_next(buf) == [item |-> Head(buf), rest |-> Tail(buf)]

\* blocking_dispatch: `if dispatched > 0 { Ok(dispatched) } else { <read> }`
NeedsRead_always(d) == TRUE
NeedsRead(d) == d = 0

\* dispatching_impl: `let _ = backend.backend.dispatch_inner_queue();`: does a
\* failure of the inner step end the call?
inner_queue_error_returned_propagated(innerErr) == innerErr
inner_queue_error_returned(innerErr) == FALSE

\* poll_dispatch_pending: `if let Err(e) = ...dispatch_inner_queue() { return Ready(Err(e.into())) }`
poll_inner_error_returned(innerErr) == innerErr

\* blocking_dispatch: `crate::conn::blocking_dispatch_impl(..)?`: does the
\* read's result (ok) end the call?
blocking_read_try_ignored(ok) == FALSE
blocking_read_try(ok) == ~ok

\* roundtrip: `self.blocking_dispatch(data)?`: does the value end the call?
roundtrip_try_retry(value) == FALSE
roundtrip_try(value) == value.kind = "err"

\* roundtrip: `while !done.load(Ordering::Acquire)`: the loop is left
roundtrip_done_any(flag) == TRUE
roundtrip_done(flag) == flag = "done"

\* roundtrip: `dispatched += self.blocking_dispatch(data)?`
Accumulate_last(sum, n) == n
Accumulate(sum, n) == sum + n

\* EventQueue::new keeps `handle: QueueHandle { tx }`: the senders the queue
\* itself holds while it exists
OwnHandle_none(exists) == 0
OwnHandle(exists) == IF exists THEN 1 ELSE 0

\* UnboundedSender::unbounded_send wakes the task parked on the receiver: the
\* waker is taken out of the slot and called
wake(w) == "none"

\* Stream::poll_next on the receiver, given the buffer, the number of live
\* senders and the waker slot: an entry, end of stream, or Pending with the
\* context's waker registered.
poll_next_no_waker(buf, senders, w) ==
    IF buf # <<>> THEN [kind |-> "some", item |-> Head(buf), rest |-> Tail(buf), waker |-> w]
    ELSE IF senders = 0 THEN [kind |-> "none", item |-> <<>>, rest |-> buf, waker |-> w]
    ELSE [kind |-> "pending", item |-> <<>>, rest |-> buf, waker |-> w]
poll_next(buf, senders, w) ==
    IF buf # <<>> THEN [kind |-> "some", item |-> Head(buf), rest |-> Tail(buf), waker |-> w]
    ELSE IF senders = 0 THEN [kind |-> "none", item |-> <<>>, rest |-> buf, waker |-> w]
    ELSE [kind |-> "pending", item |-> <<>>, rest |-> buf, waker |-> "set"]

\* poll_dispatch_pending: `cb(&self.conn, msg, data, odata, &self.handle)?`: does
\* the callback's result r end the call?
poll_callback_try_ignored(r) == FALSE
poll_callback_try(r) == r = "err"

\* The application threads that may hold a clone of a queue's handle
Holders == {"app"}

\* The object data of a roundtrip's barrier: SyncData { done }, bound to the
\* callback object the sync request creates.
SyncData(q) == [q |-> q, I |-> "wl_callback", U |-> "sync", fI |-> "none", fU |-> "none"]

\* --------------------------------------------------------------------- state
VARIABLES
    objects,    \* the transport's registry: id -> object data (NoData = free id)
    minted,     \* id -> the queue whose handle minted the object data (0 = free)
    live,       \* id -> number of object data registered under the id and not yet gone
    rx,         \* per queue: the channel buffer of QueueEvent entries
    alive,      \* per queue: the EventQueue (and its receiver) still exists
    handles,    \* per queue: the holders of a QueueHandle clone
    waker,      \* per queue: the waker slot of the receiver
    op,         \* per queue: the dispatch method its consumer is running
    pc,         \* per queue: the consumer's position in that method
    dispatched, \* per queue: dispatching_impl's local counter
    total,      \* per queue: roundtrip's local counter
    sync,       \* per queue: the completion flag of the running roundtrip
    barrier,    \* per queue: the id of the running roundtrip's barrier object, until its reply
    ret,        \* per queue: what the step just taken gave the queue's consumer: the
                \* value a call returned, the inner-step failure a drain met
                \* (inner), the wake-up of its parked task (woke)
    call,       \* per queue: what the running call has done so far
    snap,       \* per queue: number of entries buffered when the drain began
    pending,    \* the child data ObjectData::event is about to return
    delivered,  \* history of ObjectData::event calls, in delivery order
    taken,      \* per queue: sequence numbers of the entries received from rx
    handled,    \* per queue: sequence numbers for which Dispatch::event ran
    panic       \* "none", or the panic that ended the process

vars == <<objects, minted, live, rx, alive, handles, waker, op, pc, dispatched, total,
          sync, barrier, ret, call, snap, pending, delivered, taken, handled, panic>>

NoPanic == [kind |-> "none", opcode |-> 0, I |-> "none", U |-> "none"]
aborted == panic # NoPanic
NoPending == [reader |-> 0, newid |-> 0, to |-> 0, seq |-> 0, data |-> NoData]

\* What a running call has done: took/invoked: entries received and handlers
\* run by the current drain; first/reads/drains: the count of the first drain
\* (-1 before it ends), the read cycles and the drains of the current
\* blocking_dispatch; failed: the failure met by the call; rt*: entries received, handlers run, counts
\* returned, and whether a blocking_dispatch call ended, during the current roundtrip.
NoCall == [took |-> 0, invoked |-> 0, first |-> -1, reads |-> 0, drains |-> 0,
           failed |-> "none",
           rtTook |-> 0, rtInvoked |-> 0, rtSum |-> 0, rtCalled |-> FALSE]
\* ev: the ObjectData::event call the step made on a data of the queue: the
\* message's number, receiver, opcode and NewId argument, and how the call went.
NoEv == [seq |-> 0, id |-> 0, opcode |-> 0, arg |-> "none", res |-> "none"]
NoRet == [kind |-> "none", n |-> 0, cause |-> "none", op |-> "none", snap |-> 0,
          flag |-> "none", took |-> 0, invoked |-> 0, first |-> -1, reads |-> 0,
          drains |-> 0, inner |-> FALSE, woke |-> FALSE, ev |-> NoEv,
          rtTook |-> 0, rtInvoked |-> 0, rtSum |-> 0, rtCalled |-> FALSE]
NoRets == [q \in Queues |-> NoRet]
Ok(n) == [kind |-> "ok", n |-> n, cause |-> "none"]
Err(cause) == [kind |-> "err", n |-> 0, cause |-> cause]
Pending == [kind |-> "pending", n |-> 0, cause |-> "none"]

Init ==
    /\ objects = [i \in Ids |-> NoData]
    /\ minted = [i \in Ids |-> 0]
    /\ live = [i \in Ids |-> 0]
    /\ rx = [q \in Queues |-> <<>>]
    /\ alive = [q \in Queues |-> TRUE]
    /\ handles = [q \in Queues |-> {}]
    /\ waker = [q \in Queues |-> "none"]
    /\ op = [q \in Queues |-> "idle"]
    /\ pc = [q \in Queues |-> "idle"]
    /\ dispatched = [q \in Queues |-> 0]
    /\ total = [q \in Queues |-> 0]
    /\ sync = [q \in Queues |-> "none"]
    /\ barrier = [q \in Queues |-> 0]
    /\ ret = NoRets
    /\ call = [q \in Queues |-> NoCall]
    /\ snap = [q \in Queues |-> 0]
    /\ pending = NoPending
    /\ delivered = <<>>
    /\ taken = [q \in Queues |-> <<>>]
    /\ handled = [q \in Queues |-> <<>>]
    /\ panic = NoPanic

\* The ids the transport may give to a new object: unused, and not the id of a
\* child that event() is about to return.
FreeIds_ignores_pending == {i \in Ids : objects[i] = NoData}
FreeIds == {i \in Ids : objects[i] = NoData /\ i # pending.newid}
FreshId == CHOOSE i \in FreeIds : \A j \in FreeIds : i <= j

\* The senders of queue q's channel: the queue's own handle, the handle clones,
\* the QueueSender inside every object data minted for q.
Senders(q) ==
    OwnHandle(alive[q]) + Cardinality(handles[q])
      + Cardinality({i \in Ids : objects[i].q = q /\ objects[i].I \in Interfaces})
      + (IF pending.data.q = q THEN 1 ELSE 0)

\* what a step of the transport or of the application leaves alone
loopVars == <<op, pc, dispatched, total, sync, barrier, call, snap, taken, handled>>
transportVars == <<objects, minted, live, delivered, pending>>

\* EventQueue::handle: holder h gets a clone of the queue's handle
handle(q, h) ==
    /\ ~aborted
    /\ alive[q]
    /\ h \notin handles[q]
    /\ handles' = [handles EXCEPT ![q] = @ \cup {h}]
    /\ ret' = NoRets
    /\ UNCHANGED <<rx, alive, waker, panic>>
    /\ UNCHANGED transportVars
    /\ UNCHANGED loopVars

\* holder h drops its clone
DropHandle(q, h) ==
    /\ ~aborted
    /\ h \in handles[q]
    /\ handles' = [handles EXCEPT ![q] = @ \ {h}]
    /\ ret' = NoRets
    /\ UNCHANGED <<rx, alive, waker, panic>>
    /\ UNCHANGED transportVars
    /\ UNCHANGED loopVars

\* A request creating an object of interface "A" with data minted from a handle
\* of queue h: the queue's own, or a clone that may outlive the queue.  Objects
\* of interface "B" are only created by events.
Mint(h, U) ==
    /\ ~aborted
    /\ alive[h] \/ handles[h] # {}
    /\ FreeIds # {}
    /\ objects' = [objects EXCEPT ![FreshId] = make_data(h, "A", U)]
    /\ minted' = [minted EXCEPT ![FreshId] = h]
    /\ live' = [live EXCEPT ![FreshId] = @ + 1]
    /\ ret' = NoRets
    /\ UNCHANGED <<rx, alive, handles, waker, delivered, pending, panic>>
    /\ UNCHANGED loopVars

\* The object of id `id` is destroyed: the transport drops its data (the
\* destroyed() hook does nothing).
DestroyObject(id) ==
    /\ ~aborted
    /\ objects[id].I \in Interfaces
    /\ objects' = [objects EXCEPT ![id] = NoData]
    /\ live' = [live EXCEPT ![id] = @ - 1]
    /\ ret' = NoRets
    /\ UNCHANGED <<minted, delivered, pending, rx, alive, handles, waker, panic>>
    /\ UNCHANGED loopVars

\* Dropping the EventQueue drops the receiver and everything buffered in it.
DropQueue(q) ==
    /\ ~aborted
    /\ alive[q]
    /\ op[q] = "idle"
    /\ alive' = [alive EXCEPT ![q] = FALSE]
    /\ rx' = [rx EXCEPT ![q] = <<>>]
    /\ waker' = [waker EXCEPT ![q] = "none"]
    /\ ret' = NoRets
    /\ UNCHANGED <<handles, panic>>
    /\ UNCHANGED transportVars
    /\ UNCHANGED loopVars

\* ------------------------------------------------------- ObjectData::event
\* The raw messages the transport hands to an object of interface I: a NewId
\* argument (null or not) exactly on the events whose descriptor has a child
\* interface; the first opcode outside the interface stands for the messages
\* parse_event rejects.
Deliverable(I, opcode, arg) ==
    /\ I \in Interfaces
    /\ opcode <= Cardinality(DOMAIN EventsOf(I))
    /\ IF opcode \in DOMAIN EventsOf(I) /\ EventsOf(I)[opcode]
       THEN arg \in {"null", "id"}
       ELSE arg = "none"

QueueEvent(od, msg) == [fI |-> od.fI, fU |-> od.fU, msg |-> msg, odata |-> od]

\* QueueSender::send: the buffers after sending (func, msg, odata) through the
\* data's handle; a send to a dropped queue fails, is logged and changes nothing.
QueueSender_send_always(od, msg) ==
    [rx EXCEPT ![od.q] = unbounded_send(@, QueueEvent(od, msg))]
QueueSender_send(od, msg) ==
    IF alive[od.q]
    THEN [rx EXCEPT ![od.q] = unbounded_send(@, QueueEvent(od, msg))]
    ELSE rx

\* QueueProxyData::event calls odata_maker (line 624) before the send (line
\* 625): the buffers left by a call whose odata_maker panicked.
event_rx_at_panic_sent(od, msg) == QueueSender_send(od, msg)
event_rx_at_panic(od, msg) == rx

\* The threads that may be reading the socket: an external one (0) and every
\* consumer inside blocking_dispatch's read.  One of them at a time runs the
\* demultiplexer.
Readers == {0} \cup {q \in Queues : pc[q] = "read"}

\* QueueProxyData::event, run by reader r for a message to object id, up to
\* and including the send:
\*     let ret = (self.odata_maker)(&msg); self.sender.send(msg, self.clone());
\* A created child is returned, and registered by the transport, in
\* RegisterChild; without a child the call returns None at once.
Deliver(r, id, opcode, arg) ==
    /\ ~aborted
    /\ r \in Readers
    /\ pending = NoPending
    /\ objects[id] # NoData
    /\ Len(delivered) < MaxEvents
    /\ Deliverable(objects[id].I, opcode, arg)
    /\ arg = "id" => FreeIds # {}
    /\ LET od == objects[id]
           msg == [sender |-> id, opcode |-> opcode, arg |-> arg,
                   newid |-> IF arg = "id" THEN FreshId ELSE 0,
                   seq |-> Len(delivered) + 1]
           made == odata_maker(od, msg)
           ev(res) == [seq |-> msg.seq, id |-> id, opcode |-> opcode, arg |-> arg,
                       res |-> res]
       IN IF made.panic
          THEN /\ panic' = [kind |-> "missing_child", opcode |-> opcode,
                            I |-> od.I, U |-> od.U]
               /\ delivered' = Append(delivered, [to |-> minted[id], res |-> "panic"])
               /\ rx' = event_rx_at_panic(od, msg)
               /\ ret' = [NoRets EXCEPT ![od.q].ev = ev("panic")]
               /\ UNCHANGED <<pending, waker>>
          ELSE /\ rx' = QueueSender_send(od, msg)
               /\ waker' = IF rx' # rx THEN [waker EXCEPT ![od.q] = wake(@)] ELSE waker
               /\ ret' = [NoRets EXCEPT ![od.q].woke = waker'[od.q] # waker[od.q],
                                        ![od.q].ev = ev(IF rx' # rx THEN "enq" ELSE "dropped")]
               /\ delivered' = Append(delivered,
                     [to |-> minted[id],
                      res |-> IF rx' # rx THEN "enq" ELSE "dropped"])
               /\ pending' = IF made.data # NoData
                             THEN [reader |-> r, newid |-> msg.newid, to |-> minted[id],
                                   seq |-> msg.seq, data |-> made.data]
                             ELSE NoPending
               /\ UNCHANGED panic
    /\ UNCHANGED <<objects, minted, live, alive, handles>>
    /\ UNCHANGED loopVars

\* QueueProxyData::event returns `ret`; the transport registers the data under
\* the new id before it goes on to the next message.
RegisterChild ==
    /\ ~aborted
    /\ pending # NoPending
    /\ objects' = [objects EXCEPT ![pending.newid] = pending.data]
    /\ minted' = [minted EXCEPT ![pending.newid] = pending.to]
    /\ live' = [live EXCEPT ![pending.newid] = @ + 1]
    /\ pending' = NoPending
    /\ ret' = NoRets
    /\ UNCHANGED <<rx, alive, handles, waker, delivered, panic>>
    /\ UNCHANGED loopVars

\* ------------------------------------------------------------ dispatch loop
\* The value a public method running as o hands back, with what the call did.
Returned(q, o, value, c) ==
    [kind |-> value.kind, n |-> value.n, cause |-> value.cause, op |-> o,
     snap |-> snap[q], flag |-> sync[q], took |-> c.took, invoked |-> c.invoked,
     first |-> c.first, reads |-> c.reads, drains |-> c.drains,
     inner |-> value.cause = "inner", woke |-> FALSE, ev |-> NoEv,
     rtTook |-> c.rtTook, rtInvoked |-> c.rtInvoked, rtSum |-> c.rtSum,
     rtCalled |-> c.rtCalled]

\* A public method running as o returns `value`; its locals are gone.
Return(q, o, value, c) ==
    /\ ret' = [NoRets EXCEPT ![q] = Returned(q, o, value, c)]
    /\ call' = [call EXCEPT ![q] = NoCall]
    /\ op' = [op EXCEPT ![q] = "idle"]
    /\ pc' = [pc EXCEPT ![q] = "idle"]
    /\ dispatched' = [dispatched EXCEPT ![q] = 0]
    /\ total' = [total EXCEPT ![q] = 0]
    /\ sync' = [sync EXCEPT ![q] = "none"]
    /\ barrier' = [barrier EXCEPT ![q] = 0]
    /\ snap' = [snap EXCEPT ![q] = 0]

\* blocking_dispatch ends with `value`: inside roundtrip
\* `dispatched += self.blocking_dispatch(data)?` and the loop tests the flag
\* again; otherwise the caller gets the value.
DispatchReturns(q, o, value, c) ==
    IF o = "roundtrip" /\ ~roundtrip_try(value)
    THEN /\ total' = [total EXCEPT ![q] = Accumulate(@, value.n)]
         /\ call' = [call EXCEPT ![q] =
                       [c EXCEPT !.rtSum = @ + value.n, !.rtCalled = TRUE,
                                 !.first = -1, !.reads = 0, !.drains = 0]]
         /\ pc' = [pc EXCEPT ![q] = "rt_loop"]
         /\ dispatched' = [dispatched EXCEPT ![q] = 0]
         /\ snap' = [snap EXCEPT ![q] = 0]
         /\ ret' = NoRets
         /\ UNCHANGED <<op, sync, barrier>>
    ELSE Return(q, o, value, c)

\* Entry of dispatching_impl inside a method running as o, whose record so far
\* is c: backend.dispatch_inner_queue() runs first and its result (innerErr) is
\* discarded; then dispatched = 0 and the loop starts at position `at`.  The
\* step leaves in ret whether the inner step failed.
BeginDrain(q, o, at, innerErr, c) ==
    LET c1 == [c EXCEPT !.took = 0, !.invoked = 0, !.drains = @ + 1]
    IN IF inner_queue_error_returned(innerErr)
       THEN DispatchReturns(q, o, Err("inner"), [c1 EXCEPT !.failed = "inner"])
       ELSE /\ op' = [op EXCEPT ![q] = o]
            /\ pc' = [pc EXCEPT ![q] = at]
            /\ dispatched' = [dispatched EXCEPT ![q] = 0]
            /\ call' = [call EXCEPT ![q] = c1]
            /\ snap' = [snap EXCEPT ![q] = Len(rx[q])]
            /\ ret' = [NoRets EXCEPT ![q].inner = innerErr]
            /\ UNCHANGED <<total, sync, barrier>>

\* EventQueue::dispatch_pending
dispatch_pending(q, innerErr) ==
    /\ ~aborted
    /\ alive[q]
    /\ op[q] = "idle"
    /\ BeginDrain(q, "dispatch_pending", "drain", innerErr, NoCall)
    /\ UNCHANGED <<rx, alive, handles, waker, panic, taken, handled>>
    /\ UNCHANGED transportVars

\* EventQueue::blocking_dispatch, up to its first dispatching_impl
blocking_dispatch(q, innerErr) ==
    /\ ~aborted
    /\ alive[q]
    /\ op[q] = "idle"
    /\ BeginDrain(q, "blocking_dispatch", "drain1", innerErr, NoCall)
    /\ UNCHANGED <<rx, alive, handles, waker, panic, taken, handled>>
    /\ UNCHANGED transportVars

\* `while let Ok(Some(..)) = rx.try_next()`: the loop goes on while the
\* channel has a message.
LoopTakes_snapshot(q) == rx[q] # <<>> /\ call[q].took < snap[q]
LoopTakes(q) == rx[q] # <<>>

\* The call's record after an entry was received and its callback ended r
Took(c, r) ==
    [c EXCEPT !.took = @ + 1, !.rtTook = @ + 1,
              !.invoked = IF r = "ok" THEN @ + 1 ELSE @,
              !.rtInvoked = IF r = "ok" THEN @ + 1 ELSE @]

\* The entry t.item received from the channel is passed to its callback:
\* cb(backend, msg, data, odata, qhandle)
Take(q, t) ==
    LET r == queue_callback(t.item)
    IN /\ rx' = [rx EXCEPT ![q] = t.rest]
       /\ taken' = [taken EXCEPT ![q] = Append(@, t.item.msg.seq)]
       /\ handled' = IF r = "ok"
                     THEN [handled EXCEPT ![q] = Append(@, t.item.msg.seq)]
                     ELSE handled
       /\ panic' = IF r = "panic"
                   THEN [kind |-> "wrong_udata", opcode |-> t.item.msg.opcode,
                         I |-> t.item.fI, U |-> t.item.fU]
                   ELSE panic

\* One turn of dispatching_impl's loop that receives an entry:
\* cb(...)?; dispatched += 1.
DrainTake(q) ==
    /\ ~aborted
    /\ pc[q] \in {"drain", "drain1"}
    /\ LoopTakes(q)
    /\ Take(q, try_next(rx[q]))
    /\ LET r == queue_callback(try_next(rx[q]).item)
           c == Took(call[q], r)
       IN IF r = "err"
          THEN DispatchReturns(q, op[q], Err("parse"), [c EXCEPT !.failed = "parse"])
          ELSE /\ dispatched' = [dispatched EXCEPT ![q] = Counted(@, r)]
               /\ call' = [call EXCEPT ![q] = c]
               /\ ret' = NoRets
               /\ UNCHANGED <<op, pc, total, sync, barrier, snap>>
    /\ UNCHANGED <<alive, handles, waker>>
    /\ UNCHANGED transportVars

\* try_next finds nothing buffered: dispatching_impl ends with Ok(dispatched).
\* In blocking_dispatch's first drain a zero count goes on to the blocking read.
DrainEmpty(q) ==
    /\ ~aborted
    /\ pc[q] \in {"drain", "drain1"}
    /\ ~LoopTakes(q)
    /\ IF pc[q] = "drain1" /\ NeedsRead(dispatched[q])
       THEN /\ pc' = [pc EXCEPT ![q] = "read"]
            /\ call' = [call EXCEPT ![q] =
                          [call[q] EXCEPT !.first = dispatched[q], !.reads = @ + 1]]
            /\ snap' = [snap EXCEPT ![q] = 0]
            /\ ret' = NoRets
            /\ UNCHANGED <<op, dispatched, total, sync, barrier>>
       ELSE DispatchReturns(q, op[q], Ok(dispatched[q]),
                [call[q] EXCEPT !.first = IF pc[q] = "drain1" THEN dispatched[q] ELSE @])
    /\ UNCHANGED <<rx, alive, handles, waker, panic, taken, handled>>
    /\ UNCHANGED transportVars

\* conn::blocking_dispatch_impl returned: the read cycle is over (its events
\* were delivered by Deliver while pc = "read").  On success
\* blocking_dispatch calls dispatching_impl again, otherwise the error returns.
ReadDone(q, ok, innerErr) ==
    /\ ~aborted
    /\ pc[q] = "read"
    /\ pending.reader # q
    /\ LET c == [call[q] EXCEPT !.failed = IF ok THEN @ ELSE "read"]
       IN IF blocking_read_try(ok)
          THEN DispatchReturns(q, op[q], Err("read"), c)
          ELSE BeginDrain(q, op[q], "drain", innerErr, c)
    /\ UNCHANGED <<rx, alive, handles, waker, panic, taken, handled>>
    /\ UNCHANGED transportVars

\* EventQueue::roundtrip, up to the loop: a fresh flag, then the sync request,
\* which creates the callback object bound to the barrier's SyncData; a failed
\* send returns an I/O error.
roundtrip(q, sendOk) ==
    /\ ~aborted
    /\ alive[q]
    /\ op[q] = "idle"
    /\ IF sendOk
       THEN /\ FreeIds # {}
            /\ objects' = [objects EXCEPT ![FreshId] = SyncData(q)]
            /\ live' = [live EXCEPT ![FreshId] = @ + 1]
            /\ op' = [op EXCEPT ![q] = "roundtrip"]
            /\ pc' = [pc EXCEPT ![q] = "rt_loop"]
            /\ sync' = [sync EXCEPT ![q] = "sent"]
            /\ barrier' = [barrier EXCEPT ![q] = FreshId]
            /\ total' = [total EXCEPT ![q] = 0]
            /\ call' = [call EXCEPT ![q] = NoCall]
            /\ ret' = NoRets
            /\ UNCHANGED <<dispatched, snap>>
       ELSE /\ Return(q, "roundtrip", Err("send"), [NoCall EXCEPT !.failed = "send"])
            /\ UNCHANGED <<objects, live>>
    /\ UNCHANGED <<minted, delivered, pending>>
    /\ UNCHANGED <<rx, alive, handles, waker, panic, taken, handled>>

\* `while !done.load(Ordering::Acquire)`: leave with Ok(dispatched) once the
\* flag is set, else call blocking_dispatch.
RoundtripLoop(q, innerErr) ==
    /\ ~aborted
    /\ pc[q] = "rt_loop"
    /\ IF roundtrip_done(sync[q])
       THEN Return(q, "roundtrip", Ok(total[q]), call[q])
       ELSE BeginDrain(q, "roundtrip", "drain1", innerErr, call[q])
    /\ UNCHANGED <<rx, alive, handles, waker, panic, taken, handled>>
    /\ UNCHANGED transportVars

\* SyncData::event stores true in its own `done`, the clone of the flag of the
\* roundtrip call that built it (lines 378-383): the reply to the callback
\* object id sets the flag queue q's running roundtrip is testing.
SetsFlag_any_barrier(q, id) == sync[q] = "sent"
SetsFlag(q, id) == barrier[q] = id /\ sync[q] = "sent"

\* The peer's reply to a sync request reaches the barrier's SyncData, whose
\* event() sets its flag, and the callback object is gone; it is run by
\* whichever thread reads the socket.  The flag of a roundtrip that has
\* already returned is no longer read by anyone.
SyncReply(r, id) ==
    /\ ~aborted
    /\ r \in Readers
    /\ pending = NoPending
    /\ objects[id].I = "wl_callback"
    /\ LET q == objects[id].q
       IN IF SetsFlag(q, id)
          THEN /\ sync' = [sync EXCEPT ![q] = "done"]
               /\ barrier' = [barrier EXCEPT ![q] = 0]
          ELSE UNCHANGED <<sync, barrier>>
    /\ objects' = [objects EXCEPT ![id] = NoData]
    /\ live' = [live EXCEPT ![id] = @ - 1]
    /\ ret' = NoRets
    /\ UNCHANGED <<minted, delivered, pending>>
    /\ UNCHANGED <<rx, alive, handles, waker, panic>>
    /\ UNCHANGED <<op, pc, dispatched, total, call, snap, taken, handled>>

\* EventQueue::poll_dispatch_pending is called
poll_dispatch_pending(q) ==
    /\ ~aborted
    /\ alive[q]
    /\ op[q] = "idle"
    /\ op' = [op EXCEPT ![q] = "poll"]
    /\ pc' = [pc EXCEPT ![q] = "poll"]
    /\ call' = [call EXCEPT ![q] = NoCall]
    /\ ret' = NoRets
    /\ UNCHANGED <<rx, alive, handles, waker, panic, dispatched, total, sync, barrier,
                   snap, taken, handled>>
    /\ UNCHANGED transportVars

\* One turn of poll_dispatch_pending's loop: dispatch_inner_queue, whose error
\* returns Ready(Err); then poll_next: Pending returns Pending, end of stream
\* is the unreachable!() panic, an entry is passed to its callback, whose error
\* returns Ready(Err).
PollTurn(q, innerErr) ==
    /\ ~aborted
    /\ pc[q] = "poll"
    /\ LET p == poll_next(rx[q], Senders(q), waker[q])
           c == call[q]
       IN IF poll_inner_error_returned(innerErr)
          THEN /\ Return(q, "poll", Err("inner"), [c EXCEPT !.failed = "inner"])
               /\ UNCHANGED <<rx, waker, taken, handled, panic>>
          ELSE CASE p.kind = "pending" ->
                      /\ Return(q, "poll", Pending, c)
                      /\ waker' = [waker EXCEPT ![q] = p.waker]
                      /\ UNCHANGED <<rx, taken, handled, panic>>
                 [] p.kind = "none" ->
                      /\ panic' = [kind |-> "end_of_stream", opcode |-> 0,
                                   I |-> "none", U |-> "none"]
                      /\ ret' = NoRets
                      /\ UNCHANGED <<rx, waker, taken, handled>>
                      /\ UNCHANGED <<op, pc, dispatched, total, sync, barrier, call, snap>>
                 [] OTHER ->
                      /\ Take(q, [item |-> p.item, rest |-> p.rest])
                      /\ waker' = [waker EXCEPT ![q] = p.waker]
                      /\ LET r == queue_callback(p.item)
                         IN IF poll_callback_try(r)
                            THEN Return(q, "poll", Err("parse"),
                                        [Took(c, r) EXCEPT !.failed = "parse"])
                            ELSE /\ call' = [call EXCEPT ![q] = Took(c, r)]
                                 /\ ret' = NoRets
                                 /\ UNCHANGED <<op, pc, dispatched, total, sync,
                                                barrier, snap>>
    /\ UNCHANGED <<alive, handles>>
    /\ UNCHANGED transportVars

\* ------------------------------------------------------------ specifications
\* Spec: one queue with the whole dispatch loop.
Main == CHOOSE q \in Queues : \A p \in Queues : q <= p

Next ==
    \/ \E U \in UserDatas : Mint(Main, U)
    \/ \E r \in {0, Main}, id \in Ids, o \in Opcodes, a \in ArgKinds : Deliver(r, id, o, a)
    \/ RegisterChild
    \/ DropQueue(Main)
    \/ \E ie \in BOOLEAN : dispatch_pending(Main, ie)
    \/ \E ie \in BOOLEAN : blocking_dispatch(Main, ie)
    \/ DrainTake(Main)
    \/ DrainEmpty(Main)
    \/ \E ok \in BOOLEAN, ie \in BOOLEAN : ReadDone(Main, ok, ie)
    \/ \E sendOk \in BOOLEAN : roundtrip(Main, sendOk)
    \/ \E ie \in BOOLEAN : RoundtripLoop(Main, ie)
    \/ \E r \in {0, Main}, id \in Ids : SyncReply(r, id)
    \/ poll_dispatch_pending(Main)
    \/ \E ie \in BOOLEAN : PollTurn(Main, ie)

Spec == Init /\ [][Next]_vars

\* SpecQueues: two queues on one connection, each drained by dispatch_pending
\* while another thread or the first queue's blocking_dispatch reads the socket.
NextQueues ==
    \/ \E h \in Queues : Mint(h, "u1")
    \/ \E r \in {0, Main}, id \in Ids, o \in Opcodes, a \in ArgKinds : Deliver(r, id, o, a)
    \/ RegisterChild
    \/ \E q \in Queues, ie \in BOOLEAN : dispatch_pending(q, ie)
    \/ \E ie \in BOOLEAN : blocking_dispatch(Main, ie)
    \/ \E q \in Queues : DrainTake(q)
    \/ \E q \in Queues : DrainEmpty(q)
    \/ \E ok \in BOOLEAN, ie \in BOOLEAN : ReadDone(Main, ok, ie)

SpecQueues == Init /\ [][NextQueues]_vars

\* SpecPoll: one queue consumed by a task through poll_dispatch_pending while
\* another thread reads the socket; handle clones and objects come and go.
NextPoll ==
    \/ Mint(Main, "u1")
    \/ \E h \in Holders : handle(Main, h)
    \/ \E h \in Holders : DropHandle(Main, h)
    \/ \E id \in Ids : DestroyObject(id)
    \/ \E id \in Ids, o \in Opcodes, a \in ArgKinds : Deliver(0, id, o, a)
    \/ RegisterChild
    \/ poll_dispatch_pending(Main)
    \/ \E ie \in BOOLEAN : PollTurn(Main, ie)

SpecPoll == Init /\ [][NextPoll]_vars

\* ------------------------------------------------------------------ claims
Range(f) == {f[i] : i \in DOMAIN f}
SeqNos(buf) == [i \in 1..Len(buf) |-> buf[i].msg.seq]
Increasing(f) == \A i, j \in DOMAIN f : i < j => f[i] < f[j]
Enqueued(q) ==
    LET accepted(s) == delivered[s].to = q /\ delivered[s].res = "enq"
    IN SelectSeq([s \in 1..Len(delivered) |-> s], accepted)
LastDelivery == delivered[Len(delivered)]

\* C1: within one queue the handlers run in delivery order: what a drain has
\* received so far, followed by what is still buffered, is in delivery order,
\* and the handlers ran on the received entries in that same order.
C1_Fifo ==
    \A q \in Queues :
        /\ Increasing(taken[q] \o SeqNos(rx[q]))
        /\ Increasing(handled[q])
        /\ Range(handled[q]) \subseteq Range(taken[q])
C1_Witness == Len(handled[Main]) >= 2

\* C2: on a live queue every enqueued entry is either still buffered or was
\* received by a drain, exactly once; no handler runs twice for one event; an
\* event is dropped at the enqueue only when the queue is gone.
C2_ExactlyOnce ==
    /\ \A q \in Queues :
          /\ alive[q] => taken[q] \o SeqNos(rx[q]) = Enqueued(q)
          /\ Cardinality(Range(handled[q])) = Len(handled[q])
    /\ \A s \in DOMAIN delivered :
          delivered[s].res = "dropped" => ~alive[delivered[s].to]
C2_Witness == alive[Main] /\ taken[Main] # <<>> /\ rx[Main] # <<>>

\* C3 as stated: event() has returned the child (the transport has registered
\* it) before the event that creates it is drained.
C3_ReturnedBeforeDrained ==
    pending # NoPending => \A q \in Queues : pending.seq \notin Range(taken[q])

\* C3 amended: the child's data is decided before the creating event is
\* enqueued: whenever such an event is buffered its child is registered or is
\* the data event() is about to return; and the transport delivers no later
\* event before that data is registered.
C3_ChildDecidedBeforeEnqueue ==
    /\ \A q \in Queues : \A i \in DOMAIN rx[q] :
          rx[q][i].msg.arg = "id" =>
              \/ objects[rx[q][i].msg.newid] # NoData
              \/ /\ pending.newid = rx[q][i].msg.newid
                 /\ pending.data # NoData
    /\ pending # NoPending => pending.seq = Len(delivered)
C3_Witness ==
    \E i, j \in DOMAIN rx[Main] :
        /\ i < j
        /\ rx[Main][i].msg.arg = "id"
        /\ rx[Main][j].msg.sender = rx[Main][i].msg.newid

\* C4: an event is enqueued on the queue whose handle minted the receiving
\* object data and on no other; a drain of a queue receives only such events.
C4_Routing ==
    \A q \in Queues :
        /\ \A i \in DOMAIN rx[q] : minted[rx[q][i].msg.sender] = q
        /\ \A s \in Range(taken[q]) : delivered[s].to = q
        /\ \A s \in DOMAIN delivered :
              (delivered[s].to = q /\ delivered[s].res = "enq")
                  => s \in Range(taken[q]) \cup Range(SeqNos(rx[q]))
C4_Witness ==
    /\ handled[Main] # <<>>
    /\ rx[OtherQueue(Main)] # <<>>
    /\ pc[Main] = "read"

\* C5 as stated: no delivery to the data of a dropped queue ends in a panic.
C5_NeverAborts ==
    \A s \in DOMAIN delivered : delivered[s].res = "panic" => alive[delivered[s].to]

\* C5 amended: a delivery to the data of a dropped queue enqueues nothing and
\* no handler runs for it; it returns normally unless the event creates an
\* object through an opcode with no child binding, which panics as on a live
\* queue.
C5_SilentDrop ==
    /\ \A q \in Queues : ~alive[q] => rx[q] = <<>> /\ op[q] = "idle"
    /\ \A s \in DOMAIN delivered :
          delivered[s].res = "dropped" =>
              /\ ~alive[delivered[s].to]
              /\ \A q \in Queues : s \notin Range(taken[q]) \cup Range(handled[q])
    /\ (aborted /\ ~alive[LastDelivery.to]) =>
          /\ panic.kind = "missing_child"
          /\ panic.opcode \in DOMAIN EventsOf(panic.I)
          /\ EventsOf(panic.I)[panic.opcode]
          /\ panic.opcode \notin DOMAIN ChildOf(panic.I, panic.U)
C5_Witness ==
    /\ ~aborted
    /\ \E s \in DOMAIN delivered : delivered[s].res = "dropped"

\* C6: an object-creating event with a non-null id on a binding without a
\* child function never gets through event(): it is never enqueued, event()
\* never returns for it, and the panic it raises ends the process.
C6_FatalOnUnbound ==
    /\ \A q \in Queues : \A i \in DOMAIN rx[q] :
          rx[q][i].msg.arg = "id" =>
              rx[q][i].msg.opcode \in DOMAIN ChildOf(rx[q][i].odata.I, rx[q][i].odata.U)
    /\ pending # NoPending => pending.data # NoData
    /\ \A s \in DOMAIN delivered :
          delivered[s].res = "panic" =>
              /\ s = Len(delivered)
              /\ panic.kind = "missing_child"
              /\ panic.opcode \notin DOMAIN ChildOf(panic.I, panic.U)
              /\ \A q \in Queues : s \notin Range(taken[q]) \cup Range(SeqNos(rx[q]))
C6_Witness == panic.kind = "missing_child" /\ LastDelivery.res = "panic"

\* C7: every buffered entry pairs a callback and an object data of the same
\* interface and user-data type, and the downcast in queue_callback never
\* fails.
C7_TypeRecovery ==
    /\ panic.kind # "wrong_udata"
    /\ \A q \in Queues : \A i \in DOMAIN rx[q] :
          /\ rx[q][i].fI = rx[q][i].odata.I
          /\ rx[q][i].fU = rx[q][i].odata.U
C7_Witness ==
    /\ ~aborted
    /\ handled[Main] # <<>>
    /\ \E i \in Ids : objects[i].I = "B"

\* C8 as stated: a dispatch_pending call receives no more entries than were
\* buffered when it began.
C8_Snapshot ==
    \A q \in Queues : op[q] = "dispatch_pending" => call[q].took <= snap[q]

\* C8 amended: dispatch_pending goes on until it finds the buffer empty, so it
\* also processes entries enqueued while it runs, and it returns Ok only with
\* the buffer empty.
C8_DrainsUntilEmpty ==
    \A q \in Queues :
        (ret[q].op = "dispatch_pending" /\ ret[q].kind = "ok") => rx[q] = <<>>
C8_Witness ==
    /\ ret[Main].op = "dispatch_pending"
    /\ ret[Main].kind = "ok"
    /\ ret[Main].n > ret[Main].snap

\* C9: a successful dispatch_pending returns the number of entries it received,
\* which is the number of handlers it ran; and dispatch_pending never reaches
\* the blocking read.
C9_CountMatches ==
    \A q \in Queues :
        /\ (ret[q].op = "dispatch_pending" /\ ret[q].kind = "ok") =>
              /\ ret[q].n = ret[q].took
              /\ ret[q].n = ret[q].invoked
        /\ op[q] = "dispatch_pending" => pc[q] = "drain"
        /\ ret[q].op = "dispatch_pending" => ret[q].cause # "read"
C9_Witness ==
    /\ ret[Main].op = "dispatch_pending"
    /\ ret[Main].kind = "ok"
    /\ ret[Main].n = MaxEvents

\* C10: a drain that meets an entry whose callback fails returns the error at
\* that entry: the entry is gone, its handler did not run, the handlers of the
\* entries received before it did, and the entries behind it are still
\* buffered in order.
C10_DrainFailure ==
    \A q \in Queues :
        ret[q].cause = "parse" =>
            /\ ret[q].kind = "err"
            /\ op[q] = "idle"
            /\ taken[q] # <<>>
            /\ taken[q][Len(taken[q])] \notin Range(handled[q])
            /\ ret[q].invoked = ret[q].took - 1
            /\ SeqNos(rx[q]) = SubSeq(Enqueued(q), Len(taken[q]) + 1, Len(Enqueued(q)))
C10_Witness ==
    /\ ret[Main].cause = "parse"
    /\ ret[Main].took >= 1
    /\ rx[Main] # <<>>

\* C11: blocking_dispatch first drains; a first drain that processed an entry
\* returns its count with no read cycle; only a first drain of zero entries
\* goes on to one read cycle, followed by one more drain whose count is
\* returned.  The same holds for every blocking_dispatch inside roundtrip.
C11_StepOrder ==
    \A q \in Queues :
        /\ pc[q] = "drain1" =>
              call[q].first = -1 /\ call[q].reads = 0 /\ call[q].drains = 1
        /\ pc[q] = "read" =>
              call[q].first = 0 /\ call[q].reads = 1 /\ call[q].drains = 1
        /\ (pc[q] = "drain" /\ op[q] \in {"blocking_dispatch", "roundtrip"}) =>
              call[q].first = 0 /\ call[q].reads = 1 /\ call[q].drains = 2
        /\ (ret[q].op = "blocking_dispatch" /\ ret[q].kind = "ok") =>
              \/ /\ ret[q].first > 0
                 /\ ret[q].reads = 0
                 /\ ret[q].drains = 1
                 /\ ret[q].n = ret[q].first
              \/ /\ ret[q].first = 0
                 /\ ret[q].reads = 1
                 /\ ret[q].drains = 2
                 /\ ret[q].n = ret[q].took
C11_Witness ==
    /\ ret[Main].op = "blocking_dispatch"
    /\ ret[Main].kind = "ok"
    /\ ret[Main].reads = 1
    /\ ret[Main].n >= 1

\* C12 as stated: an error returned by blocking_dispatch is the failure of its
\* blocking read.
C12_FailsOnlyOnRead ==
    \A q \in Queues :
        (ret[q].op = "blocking_dispatch" /\ ret[q].kind = "err") => ret[q].cause = "read"

\* C12 amended: blocking_dispatch returns an error when its read cycle failed
\* (after a first drain of zero entries, with no second drain) or when the
\* callback of an entry received by one of its drains failed; a failed read
\* always ends the call, and the inner step's failure is never the error.
C12_ReadOrCallbackFailure ==
    \A q \in Queues :
        /\ (ret[q].op = "blocking_dispatch" /\ ret[q].kind = "err") =>
              \/ /\ ret[q].cause = "read"
                 /\ ret[q].first = 0
                 /\ ret[q].reads = 1
                 /\ ret[q].drains = 1
                 /\ ret[q].took = 0
              \/ /\ ret[q].cause = "parse"
                 /\ ret[q].took >= 1
                 /\ ret[q].invoked = ret[q].took - 1
        /\ op[q] = "blocking_dispatch" => call[q].failed = "none"
C12_Witness ==
    /\ ret[Main].op = "blocking_dispatch"
    /\ ret[Main].cause = "parse"
    /\ ret[Main].reads = 1

\* C13: once the reply to its sync request has been delivered, a roundtrip
\* needs no further input from the peer: it begins no new blocking read.
C13_ReturnsAfterReply ==
    [][\A q \in Queues :
          (op[q] = "roundtrip" /\ sync[q] = "done" /\ pc[q] # "read") => pc'[q] # "read"]_vars

\* C14 as stated: a roundtrip that returns successfully returns a count of at
\* least 1.
C14_AtLeastOne ==
    \A q \in Queues : (ret[q].op = "roundtrip" /\ ret[q].kind = "ok") => ret[q].n >= 1

\* C14 amended: a successful roundtrip returns the number of entries of its
\* queue that were received during the call, possibly none: the reply to the
\* sync request goes to the barrier's own data and is never an entry of the
\* queue.
C14_CountsQueueEntries ==
    \A q \in Queues :
        /\ (ret[q].op = "roundtrip" /\ ret[q].kind = "ok") => ret[q].n = ret[q].rtTook
        /\ \A i \in DOMAIN rx[q] : rx[q][i].odata.I \in Interfaces
C14_Witness ==
    /\ ret[Main].op = "roundtrip"
    /\ ret[Main].kind = "ok"
    /\ ret[Main].flag = "done"
    /\ ret[Main].rtCalled
    /\ ret[Main].n = 0

\* C15: roundtrip returns successfully only with the flag of its own barrier
\* set, which only the reply to its own sync request does; the value returned
\* is the sum of the counts its blocking_dispatch calls returned and the
\* number of handlers run on the queue during the call.
C15_FullBarrier ==
    \A q \in Queues :
        /\ (ret[q].op = "roundtrip" /\ ret[q].kind = "ok") =>
              /\ ret[q].flag = "done"
              /\ ret[q].n = ret[q].rtSum
              /\ ret[q].n = ret[q].rtInvoked
        /\ sync[q] = "sent" => objects[barrier[q]] = SyncData(q)
        /\ sync[q] = "done" => op[q] = "roundtrip" /\ barrier[q] = 0
C15_Witness ==
    /\ ret[Main].op = "roundtrip"
    /\ ret[Main].kind = "ok"
    /\ ret[Main].flag = "done"
    /\ ret[Main].n = MaxEvents

\* C16: a roundtrip whose sync request cannot be sent returns the error with
\* no drain and no read; a roundtrip returns no other errors than that one
\* and those of its blocking_dispatch calls, and once one of these failed the
\* roundtrip is over: it reads, drains and runs nothing more.
C16_ErrorsPropagate ==
    \A q \in Queues :
        /\ (ret[q].op = "roundtrip" /\ ret[q].cause = "send") =>
              /\ ret[q].kind = "err"
              /\ ret[q].drains = 0
              /\ ret[q].reads = 0
              /\ ret[q].rtTook = 0
              /\ ~ret[q].rtCalled
        /\ (ret[q].op = "roundtrip" /\ ret[q].kind = "err") =>
              ret[q].cause \in {"send", "read", "parse"}
        /\ op[q] = "roundtrip" => call[q].failed = "none"
C16_Witness ==
    /\ ret[Main].op = "roundtrip"
    /\ ret[Main].cause = "read"
    /\ ret[Main].rtTook >= 1

\* C17: while the queue exists its channel has a sender, the queue's own
\* handle, so poll_dispatch_pending never finds the end of the stream, whatever
\* became of the other handles and of the objects' data; and every value it
\* returns is Pending or a ready error.
C17_NeverCompletes ==
    /\ panic.kind # "end_of_stream"
    /\ \A q \in Queues : ret[q].op = "poll" => ret[q].kind \in {"pending", "err"}
C17_Witness ==
    /\ ret[Main].op = "poll"
    /\ ret[Main].kind = "pending"
    /\ Senders(Main) = 1
    /\ handles[Main] = {}
    /\ \E i \in Ids : minted[i] = Main /\ objects[i] = NoData

\* C18: a poll that returns Pending leaves the task's waker registered with
\* nothing buffered; an enqueue takes the registered waker and wakes the task;
\* so no entry is ever buffered while the task is parked with its waker still
\* registered.
C18_NoLostWakeup ==
    \A q \in Queues :
        /\ (ret[q].op = "poll" /\ ret[q].kind = "pending") =>
              waker[q] = "set" /\ rx[q] = <<>>
        /\ waker[q] = "set" => rx[q] = <<>>
        /\ ret[q].woke => waker[q] = "none" /\ rx[q] # <<>>
C18_Witness == ret[Main].woke /\ op[Main] = "idle"

\* C19 as stated: no dispatch call returns the error of the inner pre-queue
\* step.
C19_NeverReturned ==
    \A q \in Queues : ret[q].cause # "inner"

\* C19 amended: inside dispatch_pending, blocking_dispatch and roundtrip a
\* failing inner step is not returned and the drain goes on with every
\* buffered entry still to be received; only poll_dispatch_pending returns the
\* inner step's error.
C19_SwallowedExceptPoll ==
    \A q \in Queues :
        /\ ret[q].cause = "inner" => ret[q].op = "poll" /\ ret[q].kind = "err"
        /\ (ret[q].inner /\ ret[q].kind = "none") =>
              /\ op[q] \in {"dispatch_pending", "blocking_dispatch", "roundtrip"}
              /\ pc[q] \in {"drain", "drain1"}
              /\ call[q].failed = "none"
              /\ snap[q] = Len(rx[q])
C19_Witness ==
    /\ ret[Main].inner
    /\ ret[Main].kind = "none"
    /\ rx[Main] # <<>>

\* C20: no id ever holds two object data at once, through mints, children
\* returned by event() and roundtrip barriers, including ids used again after a
\* barrier is gone: the id of a child about to be registered and the id of a
\* running roundtrip's barrier belong to nothing else.
C20_OneObjectPerId ==
    /\ \A i \in Ids :
          /\ live[i] <= 1
          /\ live[i] = 1 <=> objects[i] # NoData
    /\ pending # NoPending => objects[pending.newid] = NoData
    /\ \A q \in Queues : barrier[q] # 0 => objects[barrier[q]] = SyncData(q)
C20_Witness ==
    /\ sync[Main] = "done"
    /\ \E i \in Ids : objects[i].I = "A"
    /\ \E i \in Ids : objects[i].I = "B"

\* The entry QueueSender::send builds for the event call e on its receiver:
\* the callback of the receiver's binding, the message, the receiver itself.
EntryOf(e, newid) ==
    [fI |-> objects[e.id].I, fU |-> objects[e.id].U,
     msg |-> [sender |-> e.id, opcode |-> e.opcode, arg |-> e.arg, newid |-> newid,
              seq |-> e.seq],
     odata |-> objects[e.id]]

\* C21: an event call whose message has no NewId argument, or a null one,
\* never panics, whatever the receiver's binding registers for the opcode;
\* it creates no child and returns None (nothing is left for the transport to
\* register, the registry is unchanged); and it makes one send to the queue
\* its receiver is bound to: that queue, while it exists, gets exactly one
\* more entry, made of the receiver's callback, the message and the receiver
\* itself (a queue that is gone gets nothing), and no other queue changes.
C21_NoChildOneEntry ==
    [][\A q \in Queues :
         LET e == ret'[q].ev
         IN (e.seq # 0 /\ e.arg \in {"none", "null"}) =>
               /\ e.res # "panic"
               /\ panic' = panic
               /\ pending' = NoPending
               /\ objects' = objects
               /\ objects[e.id].q = q
               /\ \A p \in Queues \ {q} : rx'[p] = rx[p]
               /\ rx'[q] = IF alive[q] THEN Append(rx[q], EntryOf(e, 0)) ELSE rx[q]
    ]_vars
C21_Witness ==
    LET e == ret[Main].ev
    IN /\ e.arg = "null"
       /\ e.res = "enq"
       /\ e.opcode \notin DOMAIN ChildOf(objects[e.id].I, objects[e.id].U)
       /\ rx[Main] # <<>>
       /\ rx[Main][Len(rx[Main])].msg.seq = e.seq

\* C22: an event call whose message has a non-null NewId and an opcode the
\* receiver's binding registers does not panic; it makes its one send of the
\* entry to the receiver's queue (one more entry while that queue exists) and
\* returns a child data for the new id, of the registered interface and user
\* data and bound to the receiver's queue; the transport registers exactly
\* that data under the new id.  So every entry for an event-created object is
\* buffered in the queue of the object that created it, where that queue's
\* consumer drains it.
C22_ChildOnParentQueue ==
    /\ [](\A q \in Queues : \A i \in DOMAIN rx[q] :
             rx[q][i].odata.I = "B" => rx[q][i].odata.q = q /\ minted[rx[q][i].msg.sender] = q)
    /\ [][/\ \A q \in Queues :
               LET e == ret'[q].ev
                   od == objects[e.id]
               IN (e.seq # 0 /\ e.arg = "id" /\ e.opcode \in DOMAIN ChildOf(od.I, od.U)) =>
                     /\ e.res # "panic"
                     /\ panic' = panic
                     /\ od.q = q
                     /\ pending'.data = [q |-> q, I |-> ChildOf(od.I, od.U)[e.opcode].I,
                                         U |-> ChildOf(od.I, od.U)[e.opcode].U,
                                         fI |-> ChildOf(od.I, od.U)[e.opcode].I,
                                         fU |-> ChildOf(od.I, od.U)[e.opcode].U]
                     /\ pending'.newid \in Ids
                     /\ objects[pending'.newid] = NoData
                     /\ pending'.to = minted[e.id]
                     /\ rx'[q] = IF alive[q] THEN Append(rx[q], EntryOf(e, pending'.newid))
                                            ELSE rx[q]
          /\ (pending # NoPending /\ pending' # pending) =>
                 /\ pending' = NoPending
                 /\ objects' = [objects EXCEPT ![pending.newid] = pending.data]
                 /\ minted' = [minted EXCEPT ![pending.newid] = pending.to]
       ]_vars
C22_Witness ==
    LET q == OtherQueue(Main)
    IN /\ pending = NoPending
       /\ rx[q] # <<>>
       /\ Head(rx[q]).odata.I = "B"
       /\ objects[Head(rx[q]).msg.sender] = Head(rx[q]).odata
       /\ pc[q] = "drain"
       /\ handled[q] # <<>>
       /\ rx[Main] = <<>>

\* C23: poll_dispatch_pending returns Pending only from a step that found the
\* queue empty and leaves it empty, so every entry buffered before it was
\* received by the call; a call of poll_dispatch_pending is never at the
\* blocking read; and when the callback of an entry fails, that step returns
\* the error as a ready value, with the failing entry received, no handler
\* run for it and the entries behind it still buffered in order.
C23_PollDrainsBeforePending ==
    /\ [](\A q \in Queues :
             /\ op[q] = "poll" => pc[q] = "poll" /\ q \notin Readers
             /\ (ret[q].op = "poll" /\ ret[q].kind = "pending") => rx[q] = <<>>)
    /\ [][\A q \in Queues :
             /\ (ret'[q].op = "poll" /\ ret'[q].kind = "pending") =>
                    /\ rx[q] = <<>>
                    /\ rx'[q] = <<>>
                    /\ waker'[q] = "set"
             /\ (op[q] = "poll" /\ taken'[q] # taken[q]
                   /\ queue_callback(Head(rx[q])) = "err") =>
                    /\ ret'[q].op = "poll"
                    /\ ret'[q].kind = "err"
                    /\ ret'[q].cause = "parse"
                    /\ op'[q] = "idle"
                    /\ rx'[q] = Tail(rx[q])
                    /\ taken'[q] = Append(taken[q], Head(rx[q]).msg.seq)
                    /\ handled'[q] = handled[q]
       ]_vars
C23_Witness ==
    /\ ret[Main].op = "poll"
    /\ ret[Main].kind = "pending"
    /\ ret[Main].took = MaxEvents
    /\ ret[Main].invoked = MaxEvents

\* C24: a roundtrip never goes from a drain to the blocking read with its
\* completion flag already set: at every step that takes a roundtrip into the
\* read, the flag is still unset.
C24_NoReadAfterFlag ==
    [][\A q \in Queues :
         (op[q] = "roundtrip" /\ pc[q] # "read" /\ pc'[q] = "read") => sync'[q] = "sent"
    ]_vars

\* C25: in an event call the child is decided before the send and without
\* regard to it.  A call that panics for an opcode its binding does not
\* register has sent nothing: no queue gets the entry, and as the process is
\* gone no handler ever runs for the event.  A call on a data whose queue is
\* gone, for a registered opcode with a non-null NewId, still returns the
\* child data, which the transport registers, while the entry is dropped.
C25_DecisionBeforeEnqueue ==
    /\ [](aborted /\ panic.kind = "missing_child" =>
             \A q \in Queues :
                 /\ Len(delivered) \notin Range(taken[q]) \cup Range(handled[q])
                 /\ Len(delivered) \notin Range(SeqNos(rx[q])))
    /\ [][\A q \in Queues :
             LET e == ret'[q].ev
                 od == objects[e.id]
             IN /\ (e.seq # 0 /\ e.res = "panic") =>
                       /\ rx' = rx
                       /\ aborted'
                       /\ e.arg = "id"
                       /\ e.opcode \notin DOMAIN ChildOf(od.I, od.U)
                /\ (e.seq # 0 /\ e.arg = "id" /\ ~alive[q]
                      /\ e.opcode \in DOMAIN ChildOf(od.I, od.U)) =>
                       /\ e.res = "dropped"
                       /\ rx' = rx
                       /\ pending'.data = make_data(q, ChildOf(od.I, od.U)[e.opcode].I,
                                                    ChildOf(od.I, od.U)[e.opcode].U)
                       /\ pending'.newid # 0
       ]_vars
C25_Witness ==
    /\ ~alive[Main]
    /\ pending = NoPending
    /\ Len(delivered) = 1
    /\ LastDelivery.res = "dropped"
    /\ LastDelivery.to = Main
    /\ \E i \in Ids : objects[i].I = "B" /\ objects[i].q = Main

\* C26: a roundtrip starts with its flag unset and with a barrier object of
\* its own, registered under an id that was free; while the call runs a set
\* flag stays set; the flag is set only by the step that delivers the reply to
\* that barrier object; and the reply to any other barrier object, one left
\* by an earlier roundtrip of the queue, leaves the flag as it is.
C26_BarrierPerCall ==
    [][\A q \in Queues :
         /\ (op[q] = "idle" /\ op'[q] = "roundtrip") =>
                /\ sync'[q] = "sent"
                /\ barrier'[q] \in Ids
                /\ objects[barrier'[q]] = NoData
                /\ objects'[barrier'[q]] = SyncData(q)
         /\ (op[q] = "roundtrip" /\ op'[q] = "roundtrip" /\ sync[q] = "done") =>
                sync'[q] = "done"
         /\ (sync[q] # "done" /\ sync'[q] = "done") =>
                /\ op[q] = "roundtrip"
                /\ sync[q] = "sent"
                /\ barrier[q] \in Ids
                /\ objects[barrier[q]] = SyncData(q)
                /\ objects'[barrier[q]] = NoData
         /\ \A id \in Ids :
                (objects[id] = SyncData(q) /\ objects'[id] = NoData /\ id # barrier[q]) =>
                    sync'[q] = sync[q] /\ op'[q] = op[q] /\ pc'[q] = pc[q]
    ]_vars
C26_Witness ==
    /\ op[Main] = "roundtrip"
    /\ sync[Main] = "sent"
    /\ barrier[Main] = 2
    /\ objects[1] = NoData
    /\ objects[2] = SyncData(Main)
====
